---- MODULE Spec2Model ----
(***************************************************************************)
(* Model of the PDF summarizer: summarizer.py (command-line front end)     *)
(* and app.py (interactive front end).  Strings are sequences of           *)
(* one-character strings.                                                  *)
(***************************************************************************)
EXTENDS Integers, Sequences, FiniteSets, TLC

VARIABLES
    \* one application of clean_text / chunk_text to an arbitrary string
    text, max_words, cleaned, recleaned, chunked, phase,
    \* the two pipeline runs and the files of the working directory
    kind,           \* run -> "cli" (summarizer.py main) or "app" (app.py)
    doc,            \* run -> the PDF given to the run
    pc,             \* run -> position of the run in its pipeline
    raw_text,       \* run -> raw_text
    cleaned_text,   \* run -> cleaned_text
    chunks,         \* run -> chunks
    summaries,      \* run -> summaries
    final_summary,  \* run -> final_summary
    messages,       \* run -> what the run has shown to its user
    wrote,          \* run -> the output paths the run has written
    download,       \* run -> the file contents handed to the download buttons
    scored,         \* run -> the (candidate, reference) pairs given to score()
    files           \* summary_output.txt and summary_output.pdf

fnvars == <<text, max_words, cleaned, recleaned, chunked, phase>>

runvars == <<kind, doc, pc, raw_text, cleaned_text, chunks, summaries,
             final_summary, messages, wrote, download, scored, files>>

vars == <<fnvars, runvars>>

(* ------------------------------------------------------------------ *)
(* Bounds of the model                                                 *)
(* ------------------------------------------------------------------ *)
MaxCleanFragments == 5
MaxChunkLen == 7
MaxBudget == 3
MaxPages == 2

(* ------------------------------------------------------------------ *)
(* Character classes of the regular expressions                        *)
(* ------------------------------------------------------------------ *)
IsSpace(c) == c \in {" ", "\n"}

IsDigit(c) == c \in {"1", "7"}

IsPunct(c) == c \in {".", "!", "?"}

Lower(c) == IF c = "P" THEN "p"
            ELSE IF c = "A" THEN "a"
            ELSE IF c = "G" THEN "g"
            ELSE IF c = "E" THEN "e"
            ELSE c

RECURSIVE Concat(_)
Concat(ss) == IF ss = <<>> THEN <<>> ELSE Head(ss) \o Concat(Tail(ss))

SeqsUpTo(S, n) == UNION {[1..k -> S] : k \in 0..n}

Min(S) == CHOOSE x \in S : \A y \in S : x <= y

(* len(s.split()): the number of maximal runs of non-whitespace *)
WordCount(s) ==
    Cardinality({i \in 1..Len(s) :
                    ~IsSpace(s[i]) /\ (i = 1 \/ IsSpace(s[i-1]))})

(* str.strip() *)
Strip(s) ==
    LET solid == {i \in 1..Len(s) : ~IsSpace(s[i])}
    IN  IF solid = {} THEN <<>>
        ELSE SubSeq(s, Min(solid), CHOOSE x \in solid : \A y \in solid : y <= x)

(* re.sub(r'\s+', ' ', text): every maximal whitespace run becomes one space *)
CollapseSpaces(s) ==
    LET tagged == [i \in 1..Len(s) |->
                     <<IF IsSpace(s[i]) THEN " " ELSE s[i],
                       i > 1 /\ IsSpace(s[i]) /\ IsSpace(s[i-1])>>]
        kept == SelectSeq(tagged, LAMBDA p : ~p[2])
    IN  [i \in 1..Len(kept) |-> kept[i][1]]

(* a match of r'Page\s\d+' (IGNORECASE) begins at index i *)
PageAt(s, i) ==
    /\ i >= 1
    /\ i + 5 <= Len(s)
    /\ Lower(s[i]) = "p"
    /\ Lower(s[i+1]) = "a"
    /\ Lower(s[i+2]) = "g"
    /\ Lower(s[i+3]) = "e"
    /\ IsSpace(s[i+4])
    /\ IsDigit(s[i+5])

(* index j lies inside a match of r'Page\s\d+'; matches cannot overlap,
   and \d+ is greedy, so a match runs through the whole digit run *)
InPageMatch(s, j) ==
    \/ \E i \in (j-5)..j : PageAt(s, i)
    \/ /\ IsDigit(s[j])
       /\ \E i \in 1..(j-6) : PageAt(s, i) /\ \A k \in (i+6)..j : IsDigit(s[k])

(* re.sub(r'Page\s\d+', '', text, flags=re.IGNORECASE) *)
RemovePageNumbers(s) ==
    LET tagged == [i \in 1..Len(s) |-> <<s[i], InPageMatch(s, i)>>]
        kept == SelectSeq(tagged, LAMBDA p : ~p[2])
    IN  [i \in 1..Len(kept) |-> kept[i][1]]

clean_text(s) == RemovePageNumbers(Strip(CollapseSpaces(s)))

(* re.split(r'(?<=[.!?])\s+', text), from index `from` on *)
RECURSIVE SplitFrom(_, _)
SplitFrom(s, from) ==
    LET starts == {i \in from..Len(s) :
                      i >= 2 /\ IsSpace(s[i]) /\ IsPunct(s[i-1])}
    IN  IF starts = {} THEN <<SubSeq(s, from, Len(s))>>
        ELSE LET i == Min(starts)
                 j == CHOOSE e \in i..Len(s) :
                         /\ \A k \in i..e : IsSpace(s[k])
                         /\ (e = Len(s) \/ ~IsSpace(s[e+1]))
             IN  <<SubSeq(s, from, i-1)>> \o SplitFrom(s, j+1)

Sentences(s) == SplitFrom(s, 1)

(* a faulty variant of MustClose: the words already in the chunk are forgotten *)
MustCloseIgnoresRunning(words, sent_words, current_chunk, maxw) ==
    sent_words > maxw /\ current_chunk # <<>>

(* a faulty variant of MustClose: the comparison is reversed *)
MustCloseReversed(words, sent_words, current_chunk, maxw) ==
    words + sent_words < maxw /\ current_chunk # <<>>

(* the test that closes the running chunk *)
MustClose(words, sent_words, current_chunk, maxw) ==
    words + sent_words > maxw /\ current_chunk # <<>>

(* a faulty variant of Flush: the final partial chunk is forgotten *)
FlushNothing(closed, current_chunk) == closed

(* the final partial chunk is emitted when it is not empty *)
Flush(closed, current_chunk) ==
    IF current_chunk # <<>> THEN Append(closed, Strip(current_chunk))
    ELSE closed

(* the for loop of chunk_text, from sentence k on *)
RECURSIVE ChunkLoop(_, _, _, _, _, _)
ChunkLoop(sentences, k, closed, current_chunk, words, maxw) ==
    IF k > Len(sentences)
    THEN Flush(closed, current_chunk)
    ELSE LET sent == sentences[k]
             sent_words == WordCount(sent)
         IN  IF MustClose(words, sent_words, current_chunk, maxw)
             THEN ChunkLoop(sentences, k+1, Append(closed, Strip(current_chunk)),
                            sent, sent_words, maxw)
             ELSE ChunkLoop(sentences, k+1, closed,
                            current_chunk \o <<" ">> \o sent,
                            words + sent_words, maxw)

chunk_text(s, maxw) == ChunkLoop(Sentences(s), 1, <<>>, <<>>, 0, maxw)


(* ------------------------------------------------------------------ *)
(* The pipeline: documents, the external collaborators, the steps      *)
(* ------------------------------------------------------------------ *)
Runs == {1, 2}

MinChunkWords == 40

DefaultMaxWords == 400

(* the text of a page holding one sentence of n words *)
Page(n) ==
    [i \in 1..(2*n + 1) |->
        IF i = 2*n + 1 THEN "\n"
        ELSE IF i = 2*n THEN "."
        ELSE IF i % 2 = 1 THEN "w" ELSE " "]

PageWords == {39, 40, 41, 365}

(* a PDF: its pages, whether fitz.open succeeds, and the page whose
   get_text raises (0: none) *)
Docs ==
    {[pages |-> [i \in 1..Len(ws) |-> Page(ws[i])], opens |-> o, bad_page |-> b] :
        ws \in SeqsUpTo(PageWords, MaxPages), o \in BOOLEAN, b \in 0..MaxPages}

ValidDocs == {d \in Docs : d.bad_page <= Len(d.pages) /\ (~d.opens => d.bad_page = 0)}

NoDoc == [pages |-> <<>>, opens |-> TRUE, bad_page |-> 0]

(* the for loop of extract_text_from_pdf inside its try block *)
RECURSIVE ReadPages(_, _, _)
ReadPages(d, k, acc) ==
    IF k > Len(d.pages) THEN [text |-> acc, error |-> FALSE]
    ELSE IF d.bad_page = k THEN [text |-> acc, error |-> TRUE]
    ELSE ReadPages(d, k + 1, acc \o d.pages[k])

extract_text_from_pdf(d) ==
    IF ~d.opens THEN [text |-> <<>>, error |-> TRUE]
    ELSE ReadPages(d, 1, <<>>)

(* the summarization model: external and deterministic; its output stands
   for "the summary of this chunk" *)
summarizer(chunk) == <<"S", "(">> \o chunk \o <<")">>

(* the test of the summarization loop of each front end *)
IsSummarized(k, chunk) ==
    IF k = "cli" THEN ~(chunk = <<>> \/ WordCount(chunk) < MinChunkWords)
    ELSE WordCount(chunk) > MinChunkWords

(* the summarization loop, from chunk i on *)
RECURSIVE SummarizeFrom(_, _, _)
SummarizeFrom(k, cs, i) ==
    IF i > Len(cs) THEN <<>>
    ELSE IF IsSummarized(k, cs[i])
         THEN <<summarizer(cs[i])>> \o SummarizeFrom(k, cs, i + 1)
         ELSE SummarizeFrom(k, cs, i + 1)

(* "\n\n".join(summaries) *)
RECURSIVE Join(_)
Join(ss) ==
    IF ss = <<>> THEN <<>>
    ELSE IF Len(ss) = 1 THEN ss[1]
    ELSE ss[1] \o <<"\n", "\n">> \o Join(Tail(ss))

(* save_summary_to_pdf: textwrap breaks the text at whitespace and the lines
   are drawn in order; the content is the words drawn, their positions on
   lines and pages are left out *)
save_summary_to_pdf(summary_text) == Strip(CollapseSpaces(summary_text))

(* chunks[:len(summaries)] *)
Prefix(cs, n) == SubSeq(cs, 1, IF n < Len(cs) THEN n ELSE Len(cs))

(* score(summaries, valid_chunks): the pairs it compares *)
ScorePairs(sums, cs) ==
    LET valid_chunks == Prefix(cs, Len(sums))
    IN  [i \in 1..(IF Len(sums) < Len(valid_chunks) THEN Len(sums) ELSE Len(valid_chunks))
            |-> <<sums[i], valid_chunks[i]>>]

NoFile == [exists |-> FALSE, data |-> <<>>]

File(d) == [exists |-> TRUE, data |-> d]

NoRuns ==
    /\ kind = [r \in Runs |-> "cli"]
    /\ doc = [r \in Runs |-> NoDoc]
    /\ pc = [r \in Runs |-> "done"]
    /\ raw_text = [r \in Runs |-> <<>>]
    /\ cleaned_text = [r \in Runs |-> <<>>]
    /\ chunks = [r \in Runs |-> <<>>]
    /\ summaries = [r \in Runs |-> <<>>]
    /\ final_summary = [r \in Runs |-> <<>>]
    /\ messages = [r \in Runs |-> <<>>]
    /\ wrote = [r \in Runs |-> {}]
    /\ download = [r \in Runs |-> [txt |-> NoFile, pdf |-> NoFile]]
    /\ scored = [r \in Runs |-> <<>>]
    /\ files = [txt |-> NoFile, pdf |-> NoFile]

(* ------------------------------------------------------------------ *)
(* Inputs of the function-level specifications                         *)
(* ------------------------------------------------------------------ *)
CleanFragments == {<<"P","a","g","e">>, <<"p","A","G","E">>, <<" ">>, <<"\n">>,
                   <<"7">>, <<"w">>}

CleanTexts == {Concat(fs) : fs \in SeqsUpTo(CleanFragments, MaxCleanFragments)}

ChunkTexts == SeqsUpTo({"w", ".", " "}, MaxChunkLen)

Budgets == 0..MaxBudget

(* ------------------------------------------------------------------ *)
(* clean_text applied once and twice                                   *)
(* ------------------------------------------------------------------ *)
InitClean ==
    /\ text \in CleanTexts
    /\ max_words = 0
    /\ cleaned = <<>>
    /\ recleaned = <<>>
    /\ chunked = <<>>
    /\ phase = "raw"
    /\ NoRuns

CleanOnce ==
    /\ phase = "raw"
    /\ cleaned' = clean_text(text)
    /\ phase' = "cleaned"
    /\ UNCHANGED <<text, max_words, recleaned, chunked, runvars>>

CleanTwice ==
    /\ phase = "cleaned"
    /\ recleaned' = clean_text(cleaned)
    /\ phase' = "recleaned"
    /\ UNCHANGED <<text, max_words, cleaned, chunked, runvars>>

NextClean == CleanOnce \/ CleanTwice

SpecClean == InitClean /\ [][NextClean]_vars

(* ------------------------------------------------------------------ *)
(* chunk_text applied to a text and a budget                           *)
(* ------------------------------------------------------------------ *)
InitChunk ==
    /\ text \in ChunkTexts
    /\ max_words \in Budgets
    /\ cleaned = <<>>
    /\ recleaned = <<>>
    /\ chunked = <<>>
    /\ phase = "text"
    /\ NoRuns

ChunkOnce ==
    /\ phase = "text"
    /\ chunked' = chunk_text(text, max_words)
    /\ phase' = "chunked"
    /\ UNCHANGED <<text, max_words, cleaned, recleaned, runvars>>

NextChunk == ChunkOnce

SpecChunk == InitChunk /\ [][NextChunk]_vars


(* ------------------------------------------------------------------ *)
(* The steps of a pipeline run                                         *)
(* ------------------------------------------------------------------ *)
RunStart(k, d) ==
    /\ kind = k
    /\ doc = d
    /\ pc = [r \in Runs |-> "extract"]
    /\ raw_text = [r \in Runs |-> <<>>]
    /\ cleaned_text = [r \in Runs |-> <<>>]
    /\ chunks = [r \in Runs |-> <<>>]
    /\ summaries = [r \in Runs |-> <<>>]
    /\ final_summary = [r \in Runs |-> <<>>]
    /\ messages = [r \in Runs |-> <<>>]
    /\ wrote = [r \in Runs |-> {}]
    /\ download = [r \in Runs |-> [txt |-> NoFile, pdf |-> NoFile]]
    /\ scored = [r \in Runs |-> <<>>]
    /\ files = [txt |-> NoFile, pdf |-> NoFile]
    /\ text = <<>>
    /\ max_words = 0
    /\ cleaned = <<>>
    /\ recleaned = <<>>
    /\ chunked = <<>>
    /\ phase = "pipeline"

(* raw_text = extract_text_from_pdf(pdf_path); main returns when it is empty *)
ExtractText(r) ==
    /\ pc[r] = "extract"
    /\ LET res == extract_text_from_pdf(doc[r])
           shown == IF res.error THEN <<"error">> ELSE <<>>
       IN  /\ raw_text' = [raw_text EXCEPT ![r] = res.text]
           /\ IF kind[r] = "cli" /\ res.text = <<>>
              THEN /\ messages' = [messages EXCEPT ![r] = @ \o shown \o <<"could_not_extract">>]
                   /\ pc' = [pc EXCEPT ![r] = "done"]
              ELSE /\ messages' = [messages EXCEPT ![r] = @ \o shown]
                   /\ pc' = [pc EXCEPT ![r] = "clean"]
    /\ UNCHANGED <<fnvars, kind, doc, cleaned_text, chunks, summaries,
                   final_summary, wrote, download, scored, files>>

(* cleaned_text = clean_text(raw_text); app.py warns and stops on too little text *)
CleanText(r) ==
    /\ pc[r] = "clean"
    /\ LET c == clean_text(raw_text[r])
       IN  /\ cleaned_text' = [cleaned_text EXCEPT ![r] = c]
           /\ IF kind[r] = "app" /\ (c = <<>> \/ WordCount(c) < MinChunkWords)
              THEN /\ messages' = [messages EXCEPT ![r] = @ \o <<"warning">>]
                   /\ pc' = [pc EXCEPT ![r] = "done"]
              ELSE /\ UNCHANGED messages
                   /\ pc' = [pc EXCEPT ![r] = "chunk"]
    /\ UNCHANGED <<fnvars, kind, doc, raw_text, chunks, summaries,
                   final_summary, wrote, download, scored, files>>

(* chunks = chunk_text(cleaned_text, max_words=400) *)
SplitIntoChunks(r) ==
    /\ pc[r] = "chunk"
    /\ chunks' = [chunks EXCEPT ![r] = chunk_text(cleaned_text[r], DefaultMaxWords)]
    /\ pc' = [pc EXCEPT ![r] = "summarize"]
    /\ UNCHANGED <<fnvars, kind, doc, raw_text, cleaned_text, summaries,
                   final_summary, messages, wrote, download, scored, files>>

(* the summarization loop and final_summary = "\n\n".join(summaries) *)
SummarizeChunks(r) ==
    /\ pc[r] = "summarize"
    /\ LET sums == SummarizeFrom(kind[r], chunks[r], 1)
       IN  /\ summaries' = [summaries EXCEPT ![r] = sums]
           /\ final_summary' = [final_summary EXCEPT ![r] = Join(sums)]
    /\ pc' = [pc EXCEPT ![r] = "save_txt"]
    /\ UNCHANGED <<fnvars, kind, doc, raw_text, cleaned_text, chunks,
                   messages, wrote, download, scored, files>>

(* with open("summary_output.txt", "w") as f: f.write(final_summary) *)
SaveTxt(r) ==
    /\ pc[r] = "save_txt"
    /\ files' = [files EXCEPT !.txt = File(final_summary[r])]
    /\ wrote' = [wrote EXCEPT ![r] = @ \cup {"txt"}]
    /\ pc' = [pc EXCEPT ![r] = "save_pdf"]
    /\ UNCHANGED <<fnvars, kind, doc, raw_text, cleaned_text, chunks, summaries,
                   final_summary, messages, download, scored>>

(* a faulty variant of SavePdf: the PDF is saved under the path of the text file *)
SavePdfWrongPath(r) ==
    /\ pc[r] = "save_pdf"
    /\ files' = [files EXCEPT !.txt = File(save_summary_to_pdf(final_summary[r]))]
    /\ wrote' = [wrote EXCEPT ![r] = @ \cup {"txt"}]
    /\ pc' = [pc EXCEPT ![r] = IF kind[r] = "app" THEN "download" ELSE "score"]
    /\ UNCHANGED <<fnvars, kind, doc, raw_text, cleaned_text, chunks, summaries,
                   final_summary, messages, download, scored>>

(* save_summary_to_pdf(final_summary, "summary_output.pdf") *)
SavePdf(r) ==
    /\ pc[r] = "save_pdf"
    /\ files' = [files EXCEPT !.pdf = File(save_summary_to_pdf(final_summary[r]))]
    /\ wrote' = [wrote EXCEPT ![r] = @ \cup {"pdf"}]
    /\ pc' = [pc EXCEPT ![r] = IF kind[r] = "app" THEN "download" ELSE "score"]
    /\ UNCHANGED <<fnvars, kind, doc, raw_text, cleaned_text, chunks, summaries,
                   final_summary, messages, download, scored>>

(* app.py opens both output files again and hands them to the download buttons *)
Download(r) ==
    /\ pc[r] = "download"
    /\ download' = [download EXCEPT ![r] = files]
    /\ pc' = [pc EXCEPT ![r] = "score"]
    /\ UNCHANGED <<fnvars, kind, doc, raw_text, cleaned_text, chunks, summaries,
                   final_summary, messages, wrote, scored, files>>

(* the BERTScore evaluation: main runs it when chunks and summaries are not
   empty, app.py when the checkbox is ticked *)
Evaluate(r) ==
    /\ pc[r] = "score"
    /\ \E ticked \in BOOLEAN :
         LET runs_it == IF kind[r] = "cli"
                        THEN chunks[r] # <<>> /\ summaries[r] # <<>>
                        ELSE ticked
         IN  scored' = [scored EXCEPT ![r] =
                           IF runs_it THEN ScorePairs(summaries[r], chunks[r]) ELSE @]
    /\ pc' = [pc EXCEPT ![r] = "done"]
    /\ UNCHANGED <<fnvars, kind, doc, raw_text, cleaned_text, chunks, summaries,
                   final_summary, messages, wrote, download, files>>

Next ==
    \E r \in Runs :
        \/ ExtractText(r)
        \/ CleanText(r)
        \/ SplitIntoChunks(r)
        \/ SummarizeChunks(r)
        \/ SaveTxt(r)
        \/ SavePdf(r)
        \/ Download(r)
        \/ Evaluate(r)

(* the same PDF is given to the command line and to the interactive form *)
Init ==
    \E d \in ValidDocs :
        RunStart([r \in Runs |-> IF r = 1 THEN "cli" ELSE "app"], [r \in Runs |-> d])

Spec == Init /\ [][Next]_vars

(* two runs, of either front end, on different readable one-page PDFs *)
RaceDocs == {d \in ValidDocs : d.opens /\ d.bad_page = 0 /\ Len(d.pages) = 1}

InitRace ==
    \E k \in [Runs -> {"cli", "app"}], d \in [Runs -> RaceDocs] :
        /\ d[1] # d[2]
        /\ RunStart(k, d)

SpecRace == InitRace /\ [][Next]_vars

(* ------------------------------------------------------------------ *)
(* Properties of clean_text and chunk_text                             *)
(* ------------------------------------------------------------------ *)

(* C3: clean_text is idempotent: cleaning a cleaned text changes nothing *)
C3_CleanIdempotent == phase = "recleaned" => recleaned = cleaned

(* the sentences of a string that hold at least one word, each stripped *)
SentenceList(s) ==
    LET ss == Sentences(s)
    IN  SelectSeq([k \in 1..Len(ss) |-> Strip(ss[k])], LAMBDA x : x # <<>>)

RECURSIVE SumWords(_)
SumWords(cs) == IF cs = <<>> THEN 0 ELSE WordCount(Head(cs)) + SumWords(Tail(cs))

Oversized(s) == WordCount(s) > max_words

(* C1: every chunk has at most max_words words unless it is exactly one
   sentence of the text whose own word count exceeds max_words; every such
   oversized sentence is a chunk of its own, whole, and a chunk of two or
   more sentences holds no oversized sentence *)
C1_BudgetOrLoneSentence ==
    phase = "chunked" =>
      LET ss == SentenceList(text)
      IN  /\ \A i \in 1..Len(chunked) :
                \/ WordCount(chunked[i]) <= max_words
                \/ \E k \in 1..Len(ss) : Oversized(ss[k]) /\ chunked[i] = ss[k]
          /\ \A k \in 1..Len(ss) :
                Oversized(ss[k]) =>
                  Cardinality({i \in 1..Len(chunked) : chunked[i] = ss[k]})
                    = Cardinality({j \in 1..Len(ss) : ss[j] = ss[k]})
          /\ \A i \in 1..Len(chunked) :
                LET cs == SentenceList(chunked[i])
                IN  Len(cs) >= 2 => \A j \in 1..Len(cs) : ~Oversized(cs[j])

C1_Witness ==
    /\ phase = "chunked"
    /\ max_words >= 1
    /\ Len(chunked) >= 2
    /\ \E i \in 1..Len(chunked) : WordCount(chunked[i]) > max_words

(* C2: the sentences of the chunks, taken in order, are the sentences of the
   text (pieces without a word and surrounding whitespace aside), and the
   word counts of the chunks add up to the word count of the text *)
C2_SentencesPreserved ==
    phase = "chunked" =>
      /\ Concat([i \in 1..Len(chunked) |-> SentenceList(chunked[i])])
            = SentenceList(text)
      /\ SumWords(chunked) = WordCount(text)

C2_Witness ==
    /\ phase = "chunked"
    /\ Len(chunked) >= 2
    /\ \E i \in 1..Len(chunked) : Len(SentenceList(chunked[i])) >= 2

(* C9: a smaller budget never gives fewer chunks for the same text *)
C9_CountMonotonic ==
    phase = "chunked" =>
      \A m \in Budgets :
        m <= max_words => Len(chunk_text(text, m)) >= Len(chunked)

C9_Witness ==
    /\ phase = "chunked"
    /\ \E m \in Budgets :
          m < max_words /\ Len(chunk_text(text, m)) > Len(chunked)

(* ------------------------------------------------------------------ *)
(* Properties of the pipeline                                          *)
(* ------------------------------------------------------------------ *)
Other(r) == CHOOSE o \in Runs : o # r

Contains(ms, m) == \E i \in 1..Len(ms) : ms[i] = m

(* the run stopped with a message before chunking *)
Halted(r) ==
    /\ pc[r] = "done"
    /\ Contains(messages[r], "warning") \/ Contains(messages[r], "could_not_extract")

(* the run is past its summarization loop *)
PastLoop(r) ==
    \/ pc[r] \in {"save_txt", "save_pdf", "download", "score"}
    \/ pc[r] = "done" /\ ~Halted(r)

(* the run is past the saving of both output files *)
PastSaving(r) ==
    \/ pc[r] \in {"download", "score"}
    \/ pc[r] = "done" /\ ~Halted(r)

(* C4: in both front ends a chunk is left out of the summaries exactly when
   it has fewer than 40 words *)
C4_SkipsExactlyUnder40 ==
    \A r \in Runs :
      PastLoop(r) =>
        \A i \in 1..Len(chunks[r]) :
          (\E j \in 1..Len(summaries[r]) : summaries[r][j] = summarizer(chunks[r][i]))
            <=> WordCount(chunks[r][i]) >= 40

(* C5: the two front ends, given the same PDF, stop or go on alike and end
   with the same summaries, the same FinalSummary and the same files written *)
C5_FrontEndsAgree ==
    \A r \in Runs :
      LET o == Other(r)
      IN  (pc[r] = "done" /\ pc[o] = "done" /\ doc[r] = doc[o] /\ kind[r] # kind[o]) =>
            /\ Halted(r) = Halted(o)
            /\ summaries[r] = summaries[o]
            /\ final_summary[r] = final_summary[o]
            /\ wrote[r] = wrote[o]

(* C6: a run whose extracted text is empty, or whose cleaned text has fewer
   than 40 words, stops with a message before chunking and writes no file *)
C6_TooLittleTextHalts ==
    \A r \in Runs :
      (/\ pc[r] = "done"
       /\ raw_text[r] = <<>> \/ WordCount(clean_text(raw_text[r])) < 40) =>
         /\ Halted(r)
         /\ chunks[r] = <<>>
         /\ summaries[r] = <<>>
         /\ wrote[r] = {}

(* C7: extract_text_from_pdf returns the empty string whenever opening the
   PDF or reading one of its pages fails *)
C7_FailedReadGivesEmptyText ==
    \A r \in Runs :
      (pc[r] # "extract" /\ (~doc[r].opens \/ doc[r].bad_page # 0)) =>
        raw_text[r] = <<>>

(* C8: every pair given to the scorer is a summary and the chunk it was
   generated from *)
C8_ScoresSummaryAgainstItsChunk ==
    \A r \in Runs :
      \A i \in 1..Len(scored[r]) :
        scored[r][i][1] = summarizer(scored[r][i][2])

HoldsTxtOf(r) == files.txt = File(final_summary[r])

HoldsPdfOf(r) == files.pdf = File(save_summary_to_pdf(final_summary[r]))

(* C10: the output paths are shared: a run that has saved its outputs while
   the other run has written nothing leaves both files holding its own
   FinalSummary, and the two files can hold different runs' summaries only
   when both runs have written *)
C10_LoneRunLeavesItsOwnSummary ==
    \A r \in Runs :
      /\ (PastSaving(r) /\ wrote[Other(r)] = {}) => HoldsTxtOf(r) /\ HoldsPdfOf(r)
      /\ (HoldsTxtOf(r) /\ files.pdf.exists /\ ~HoldsPdfOf(r)) =>
            wrote[r] # {} /\ wrote[Other(r)] # {}

(* the race: both runs are over, the text file is one run's and the PDF the
   other's, and a run was handed for download the text file of the other *)
C10_Witness ==
    \E r \in Runs :
      LET o == Other(r)
      IN  /\ pc[r] = "done" /\ pc[o] = "done"
          /\ doc[r] # doc[o]
          /\ final_summary[r] # final_summary[o]
          /\ HoldsTxtOf(o) /\ ~HoldsTxtOf(r)
          /\ HoldsPdfOf(r) /\ ~HoldsPdfOf(o)
          /\ kind[r] = "app"
          /\ download[r].txt = File(final_summary[o])
          /\ download[r].pdf = File(save_summary_to_pdf(final_summary[r]))

====
